---- MODULE Spec2Model ----
(***************************************************************************)
(* Roam's network configuration module (src/src/network_config.rs):        *)
(* the NetworkKey text codec (to_string / from_str), the subnet parser     *)
(* (string_to_ip_cidr), the prompt-driven assembler (new_network_prompt)   *)
(* and the JSON serialisation of a NetworkConfig (to_json).                *)
(*                                                                         *)
(* Text is a sequence of one-character strings, a byte is a number in      *)
(* 0..255.  One behaviour is one run of the program or of one unit test:   *)
(* from "start" an entry point makes a call, and some calls are followed   *)
(* by the call the code makes on their result (a key is serialised and     *)
(* parsed back, a parsed subnet is put in a NetworkConfig and serialised). *)
(* op is the call that last returned, arg what it was given, res what it   *)
(* returned and draws the number of seeds it took from the thread RNG.     *)
(***************************************************************************)
EXTENDS Integers, Sequences, FiniteSets

VARIABLES op, arg, res, draws

vars == <<op, arg, res, draws>>

(***************************************************************************)
(* Bounds of the model.                                                    *)
(***************************************************************************)
\* Longest access or secret key given to to_string.
MaxKeyLen == 3
\* Longest token, over TokenChars, given to from_str.
MaxTokenLen == 6
\* Longest text, over SuffixChars, appended to an address for string_to_ip_cidr.
MaxSuffixLen == 5
\* Length of a generated access key; the generated secret key is twice as long
\* (ed25519: 32 and 64 bytes).
GenKeyLen == 1

(***************************************************************************)
(* Rust's Option and Result.                                               *)
(***************************************************************************)
None == <<>>

Some(v) == <<v>>

Ok(v) == [ok |-> TRUE, val |-> v]

Err(msg) == [ok |-> FALSE, err |-> msg]

(***************************************************************************)
(* Sequences of length at most n over S.                                   *)
(***************************************************************************)
SeqsUpTo(S, n) == UNION {[1..k -> S] : k \in 0..n}

SeqsOfLen(S, n) == [1..n -> S]

\* The position of the first c in s, 0 when there is none.
RECURSIVE IndexFrom(_, _, _)
IndexFrom(s, c, i) ==
  IF i > Len(s) THEN 0
  ELSE IF s[i] = c THEN i
  ELSE IndexFrom(s, c, i + 1)

IndexOf(s, c) == IndexFrom(s, c, 1)

\* str::split(sep): a text with n separators has n + 1 pieces, the empty
\* text has one empty piece.
RECURSIVE Split(_, _)
Split(s, sep) ==
  LET i == IndexOf(s, sep)
  IN  IF i = 0 THEN <<s>>
      ELSE <<SubSeq(s, 1, i - 1)>> \o Split(SubSeq(s, i + 1, Len(s)), sep)

(***************************************************************************)
(* base64, URL_SAFE_NO_PAD: the alphabet A-Z a-z 0-9 - _ and no padding.   *)
(***************************************************************************)
UrlSafeAlphabet ==
  <<"A", "B", "C", "D", "E", "F", "G", "H", "I", "J", "K", "L", "M",
    "N", "O", "P", "Q", "R", "S", "T", "U", "V", "W", "X", "Y", "Z",
    "a", "b", "c", "d", "e", "f", "g", "h", "i", "j", "k", "l", "m",
    "n", "o", "p", "q", "r", "s", "t", "u", "v", "w", "x", "y", "z",
    "0", "1", "2", "3", "4", "5", "6", "7", "8", "9", "-", "_">>

Sym(v) == UrlSafeAlphabet[v + 1]

\* The 6-bit value of a symbol, -1 for a character outside the alphabet.
SymValue(c) == IndexOf(UrlSafeAlphabet, c) - 1

\* encode_config(bytes, URL_SAFE_NO_PAD): three bytes make four symbols, a
\* last single byte two symbols and a last pair three, with no '='.
RECURSIVE Base64Encode(_)
Base64Encode(bytes) ==
  IF Len(bytes) = 0 THEN <<>>
  ELSE IF Len(bytes) = 1 THEN
    <<Sym(bytes[1] \div 4), Sym((bytes[1] % 4) * 16)>>
  ELSE IF Len(bytes) = 2 THEN
    LET n == bytes[1] * 256 + bytes[2]
    IN  <<Sym(n \div 1024), Sym((n \div 16) % 64), Sym((n % 16) * 4)>>
  ELSE
    LET n == bytes[1] * 65536 + bytes[2] * 256 + bytes[3]
    IN  <<Sym(n \div 262144), Sym((n \div 4096) % 64),
          Sym((n \div 64) % 64), Sym(n % 64)>>
        \o Base64Encode(SubSeq(bytes, 4, Len(bytes)))

\* The bytes of a text of symbols whose length is not 1 modulo 4; the bits
\* left over in the last symbol are dropped.
RECURSIVE DecodeSymbols(_)
DecodeSymbols(text) ==
  IF Len(text) = 0 THEN <<>>
  ELSE IF Len(text) = 2 THEN
    <<SymValue(text[1]) * 4 + SymValue(text[2]) \div 16>>
  ELSE IF Len(text) = 3 THEN
    LET n == SymValue(text[1]) * 4096 + SymValue(text[2]) * 64 + SymValue(text[3])
    IN  <<n \div 1024, (n \div 4) % 256>>
  ELSE
    LET n == SymValue(text[1]) * 262144 + SymValue(text[2]) * 4096
             + SymValue(text[3]) * 64 + SymValue(text[4])
    IN  <<n \div 65536, (n \div 256) % 256, n % 256>>
        \o DecodeSymbols(SubSeq(text, 5, Len(text)))

\* Base64Decode with the empty text refused.
Base64DecodeNonEmpty(text) ==
  IF \E i \in 1..Len(text) : SymValue(text[i]) < 0 THEN Err("InvalidByte")
  ELSE IF Len(text) % 4 = 1 \/ Len(text) = 0 THEN Err("InvalidLength")
  ELSE Ok(DecodeSymbols(text))

\* decode_config(text, URL_SAFE_NO_PAD): a character outside the alphabet is
\* an invalid byte, a single left-over symbol an invalid length.  The empty
\* text decodes to no bytes.
Base64Decode(text) ==
  IF \E i \in 1..Len(text) : SymValue(text[i]) < 0 THEN Err("InvalidByte")
  ELSE IF Len(text) % 4 = 1 THEN Err("InvalidLength")
  ELSE Ok(DecodeSymbols(text))

(***************************************************************************)
(* NetworkKey and its text form.                                           *)
(***************************************************************************)
NetworkKey(access, secret) == [access_key |-> access, secret_key |-> secret]

\* to_string with the secret key pushed first.
to_string_secret_first(key) ==
  LET access_key_base64 == Base64Encode(key.access_key)
  IN  IF key.secret_key # None
      THEN Base64Encode(key.secret_key[1]) \o <<":">> \o access_key_base64
      ELSE access_key_base64

\* impl ToString for NetworkKey.
to_string(key) ==
  LET access_key_base64 == Base64Encode(key.access_key)
  IN  IF key.secret_key # None
      THEN access_key_base64 \o <<":">> \o Base64Encode(key.secret_key[1])
      ELSE access_key_base64

\* The flat_map of from_str: the decoded pieces, a piece that fails to
\* decode left out.
RECURSIVE DecodedPieces(_)
DecodedPieces(pieces) ==
  IF pieces = <<>> THEN <<>>
  ELSE LET d == Base64Decode(Head(pieces))
       IN  (IF d.ok THEN <<d.val>> ELSE <<>>) \o DecodedPieces(Tail(pieces))

\* from_str without the second keys.next(): the secret key is never read.
from_str_no_secret(s) ==
  LET keys == DecodedPieces(Split(s, ":"))
  IN  IF Len(keys) >= 1
      THEN Ok(NetworkKey(keys[1], None))
      ELSE Err("failed to deserialize access key")

\* from_str that passes a piece's base64 error through instead of skipping
\* the piece.
from_str_strict(s) ==
  LET pieces == Split(s, ":")
      keys == DecodedPieces(pieces)
  IN  IF Len(keys) = Len(pieces)
      THEN Ok(NetworkKey(keys[1], IF Len(keys) >= 2 THEN Some(keys[2]) ELSE None))
      ELSE Err("failed to deserialize access key")

\* impl FromStr for NetworkKey.
from_str(s) ==
  LET keys == DecodedPieces(Split(s, ":"))
  IN  IF Len(keys) >= 1
      THEN Ok(NetworkKey(keys[1], IF Len(keys) >= 2 THEN Some(keys[2]) ELSE None))
      ELSE Err("failed to deserialize access key")

(***************************************************************************)
(* Numbers in text.                                                        *)
(***************************************************************************)
Digits == <<"0", "1", "2", "3", "4", "5", "6", "7", "8", "9">>

LowerHexDigits ==
  <<"0", "1", "2", "3", "4", "5", "6", "7", "8", "9", "a", "b", "c", "d", "e", "f">>

UpperHexDigits ==
  <<"0", "1", "2", "3", "4", "5", "6", "7", "8", "9", "A", "B", "C", "D", "E", "F">>

\* The value of a decimal digit, -1 for any other character.
DigitValue(c) == IndexOf(Digits, c) - 1

\* The value of a hexadecimal digit of either case, -1 for any other character.
HexValue(c) ==
  IF IndexOf(LowerHexDigits, c) > 0 THEN IndexOf(LowerHexDigits, c) - 1
  ELSE IndexOf(UpperHexDigits, c) - 1

AllDigits(s) == \A i \in 1..Len(s) : DigitValue(s[i]) >= 0

AllHex(s) == \A i \in 1..Len(s) : HexValue(s[i]) >= 0

\* The number a text of digits in the given radix denotes.
RECURSIVE NumberValue(_, _)
NumberValue(s, radix) ==
  IF s = <<>> THEN 0
  ELSE NumberValue(SubSeq(s, 1, Len(s) - 1), radix) * radix + HexValue(s[Len(s)])

\* The largest value of the u8 that holds the prefix length.
U8Max == 255

\* The digits of u8::from_str, most significant first: a digit that is none
\* is an error, and so is a value that leaves the u8 (checked arithmetic).
RECURSIVE ParseU8Digits(_, _)
ParseU8Digits(s, acc) ==
  IF s = <<>> THEN Ok(acc)
  ELSE IF DigitValue(Head(s)) < 0 THEN Err("InvalidDigit")
  ELSE IF acc * 10 + DigitValue(Head(s)) > U8Max THEN Err("Overflow")
  ELSE ParseU8Digits(Tail(s), acc * 10 + DigitValue(Head(s)))

\* ParseU8 for a prefix length held in a u16.
ParseU16(s) ==
  LET digits == IF s # <<>> /\ Head(s) = "+" THEN Tail(s) ELSE s
  IN  IF digits = <<>> THEN Err("Empty")
      ELSE IF ~AllDigits(digits) THEN Err("InvalidDigit")
      ELSE IF NumberValue(digits, 10) > 65535 THEN Err("Overflow")
      ELSE Ok(NumberValue(digits, 10))

\* u8::from_str: an optional '+', then at least one digit.
ParseU8(s) ==
  LET digits == IF s # <<>> /\ Head(s) = "+" THEN Tail(s) ELSE s
  IN  IF digits = <<>> THEN Err("Empty") ELSE ParseU8Digits(digits, 0)

\* The decimal text of a natural number.
RECURSIVE ToDecimal(_)
ToDecimal(n) ==
  IF n < 10 THEN <<Digits[n + 1]>>
  ELSE ToDecimal(n \div 10) \o <<Digits[(n % 10) + 1]>>

\* The lower-case hexadecimal text of a natural number ({:x}).
RECURSIVE ToHex(_)
ToHex(n) ==
  IF n < 16 THEN <<LowerHexDigits[n + 1]>>
  ELSE ToHex(n \div 16) \o <<LowerHexDigits[(n % 16) + 1]>>

\* The texts of ts joined by sep.
RECURSIVE Join(_, _)
Join(ts, sep) ==
  IF ts = <<>> THEN <<>>
  ELSE IF Len(ts) = 1 THEN ts[1]
  ELSE ts[1] \o sep \o Join(Tail(ts), sep)

(***************************************************************************)
(* std::net::IpAddr: its FromStr and its Display.  An address is its       *)
(* family and its segments, four octets or eight 16-bit groups.  The       *)
(* IPv6 form with a dotted IPv4 tail is not parsed here, and an octet may  *)
(* start with a zero: no text in SubnetInputs has either.                  *)
(***************************************************************************)
IpV4(octets) == [v4 |-> TRUE, segs |-> octets]

IpV6(groups) == [v4 |-> FALSE, segs |-> groups]

is_ipv4(ip) == ip.v4

is_ipv6(ip) == ~ip.v4

OctetOk(t) == Len(t) \in 1..3 /\ AllDigits(t) /\ NumberValue(t, 10) <= 255

ParseIpv4(s) ==
  LET parts == Split(s, ".")
  IN  IF Len(parts) = 4 /\ \A i \in 1..4 : OctetOk(parts[i])
      THEN Ok(IpV4([i \in 1..4 |-> NumberValue(parts[i], 10)]))
      ELSE Err("AddrParseError")

GroupOk(t) == Len(t) \in 1..4 /\ AllHex(t)

\* The position of the first "::" of s at or after i, 0 when there is none.
RECURSIVE DoubleColonFrom(_, _)
DoubleColonFrom(s, i) ==
  IF i + 1 > Len(s) THEN 0
  ELSE IF s[i] = ":" /\ s[i + 1] = ":" THEN i
  ELSE DoubleColonFrom(s, i + 1)

\* The groups of a run of groups separated by single colons; no text, no group.
Groups(t) == IF t = <<>> THEN <<>> ELSE Split(t, ":")

GroupValues(gs) == [i \in 1..Len(gs) |-> NumberValue(gs[i], 16)]

ParseIpv6(s) ==
  LET dc == DoubleColonFrom(s, 1)
      head == Groups(IF dc = 0 THEN s ELSE SubSeq(s, 1, dc - 1))
      tail == IF dc = 0 THEN <<>> ELSE Groups(SubSeq(s, dc + 2, Len(s)))
      n == Len(head) + Len(tail)
  IN  IF /\ \A i \in 1..Len(head) : GroupOk(head[i])
         /\ \A i \in 1..Len(tail) : GroupOk(tail[i])
         /\ IF dc = 0 THEN n = 8 ELSE n <= 7
      THEN Ok(IpV6(GroupValues(head) \o [i \in 1..(8 - n) |-> 0] \o GroupValues(tail)))
      ELSE Err("AddrParseError")

\* IpAddr::from_str: an IPv4 address, or else an IPv6 address.
ParseIpAddr(s) == IF ParseIpv4(s).ok THEN ParseIpv4(s) ELSE ParseIpv6(s)

FormatIpv4(octets) ==
  Join([i \in 1..Len(octets) |-> ToDecimal(octets[i])], <<".">>)

\* The number of zero groups of g in a row from position i on.
RECURSIVE ZeroRun(_, _)
ZeroRun(g, i) ==
  IF i > Len(g) \/ g[i] # 0 THEN 0 ELSE 1 + ZeroRun(g, i + 1)

HexGroups(g) == Join([i \in 1..Len(g) |-> ToHex(g[i])], <<":">>)

\* Display for Ipv6Addr: the dotted forms of the IPv4-compatible and the
\* IPv4-mapped addresses, and otherwise the first longest run of two or more
\* zero groups written "::".
FormatIpv6(g) ==
  LET zeros_len == CHOOSE n \in 0..8 :
                     /\ \E i \in 1..8 : ZeroRun(g, i) = n
                     /\ \A i \in 1..8 : ZeroRun(g, i) <= n
      zeros_at == CHOOSE i \in 1..8 :
                    /\ ZeroRun(g, i) = zeros_len
                    /\ \A j \in 1..(i - 1) : ZeroRun(g, j) < zeros_len
      dotted == FormatIpv4(<<g[7] \div 256, g[7] % 256, g[8] \div 256, g[8] % 256>>)
  IN  IF SubSeq(g, 1, 6) = <<0, 0, 0, 0, 0, 0>> /\ <<g[7], g[8]>> \notin {<<0, 0>>, <<0, 1>>}
      THEN <<":", ":">> \o dotted
      ELSE IF SubSeq(g, 1, 6) = <<0, 0, 0, 0, 0, 65535>>
      THEN <<":", ":", "f", "f", "f", "f", ":">> \o dotted
      ELSE IF zeros_len > 1
      THEN HexGroups(SubSeq(g, 1, zeros_at - 1)) \o <<":", ":">>
           \o HexGroups(SubSeq(g, zeros_at + zeros_len, 8))
      ELSE HexGroups(g)

\* Display for IpAddr.
FormatIpAddr(ip) == IF ip.v4 THEN FormatIpv4(ip.segs) ELSE FormatIpv6(ip.segs)

(***************************************************************************)
(* The subnet parser.                                                      *)
(***************************************************************************)
\* The largest prefix length of an IPv4 subnet.
MaxCidrV4 == 30

\* The largest prefix length of an IPv6 subnet.
MaxCidrV6 == 126

\* string_to_ip_cidr with the IPv4 bound applied to both families.
string_to_ip_cidr_flat_bound(input) ==
  IF input = <<>> THEN Ok(None)
  ELSE
    LET input_parts == Split(input, "/")
        ip_addr == ParseIpAddr(input_parts[1])
        cidr == ParseU8(input_parts[2])
    IN  IF ~ip_addr.ok THEN Err("Could not parse IP address")
        ELSE IF Len(input_parts) < 2 THEN Err("CIDR not provided")
        ELSE IF ~cidr.ok THEN Err("Could not parse CIDR")
        ELSE IF cidr.val > 30 THEN Err("Invalid CIDR subnet")
        ELSE Ok(Some(<<ip_addr.val, cidr.val>>))

\* string_to_ip_cidr.  The text is split at every '/', the first piece is
\* the address and the second the prefix length; further pieces are not
\* looked at.  split gives at least one piece, so "IP address not provided"
\* cannot be the outcome.
string_to_ip_cidr(input) ==
  IF input = <<>> THEN Ok(None)
  ELSE
    LET input_parts == Split(input, "/")
        ip_addr == ParseIpAddr(input_parts[1])
        cidr == ParseU8(input_parts[2])
    IN  IF ~ip_addr.ok THEN Err("Could not parse IP address")
        ELSE IF Len(input_parts) < 2 THEN Err("CIDR not provided")
        ELSE IF ~cidr.ok THEN Err("Could not parse CIDR")
        ELSE IF \/ is_ipv4(ip_addr.val) /\ cidr.val > MaxCidrV4
                \/ is_ipv6(ip_addr.val) /\ cidr.val > MaxCidrV6
        THEN Err("Invalid CIDR subnet")
        ELSE Ok(Some(<<ip_addr.val, cidr.val>>))

(***************************************************************************)
(* The prompt and the assembler.                                           *)
(***************************************************************************)
IsWhitespace(c) == c \in {" ", "\t", "\n", "\r"}

RECURSIVE TrimStart(_)
TrimStart(s) ==
  IF s # <<>> /\ IsWhitespace(Head(s)) THEN TrimStart(Tail(s)) ELSE s

RECURSIVE TrimEnd(_)
TrimEnd(s) ==
  IF s # <<>> /\ IsWhitespace(s[Len(s)]) THEN TrimEnd(SubSeq(s, 1, Len(s) - 1)) ELSE s

\* question_prompt: the line read from stdin, trimmed.  The failures of
\* stdout and stdin are not modelled.
question_prompt(line) == TrimEnd(TrimStart(line))

NetworkConfig(name, key, ip_addr, cidr) ==
  [name |-> name, key |-> key, network_addr |-> ip_addr, cidr |-> cidr]

\* The prefix length of the default subnet.
DefaultCidr == 24

\* The subnet taken when the answer is blank: 192.168.251.0/24.
DefaultSubnet == <<IpV4(<<192, 168, 251, 0>>), DefaultCidr>>

\* new_network_prompt with the key generated before the answers are checked.
new_network_prompt_key_first(name_line, subnet_line, generated) ==
  LET name == question_prompt(name_line)
      ip_cidr == string_to_ip_cidr(question_prompt(subnet_line))
      subnet == IF ip_cidr.val = None THEN DefaultSubnet ELSE ip_cidr.val[1]
  IN  IF name = <<>>
      THEN [result |-> Err("A network name needs to be provided."), draws |-> 1]
      ELSE IF ~ip_cidr.ok
      THEN [result |-> ip_cidr, draws |-> 1]
      ELSE [result |-> Ok(NetworkConfig(name, generated, subnet[1], subnet[2])),
            draws |-> 1]

\* new_network_prompt, given the two lines stdin holds and the key pair the
\* RNG's seed makes: what it returns, and how many seeds it drew.  The subnet
\* is asked for only after a name was given, and the key is generated last.
new_network_prompt(name_line, subnet_line, generated) ==
  LET name == question_prompt(name_line)
      ip_cidr == string_to_ip_cidr(question_prompt(subnet_line))
      subnet == IF ip_cidr.val = None THEN DefaultSubnet ELSE ip_cidr.val[1]
  IN  IF name = <<>>
      THEN [result |-> Err("A network name needs to be provided."), draws |-> 0]
      ELSE IF ~ip_cidr.ok
      THEN [result |-> ip_cidr, draws |-> 0]
      ELSE [result |-> Ok(NetworkConfig(name, generated, subnet[1], subnet[2])),
            draws |-> 1]

(***************************************************************************)
(* Serialisation of a NetworkConfig.                                       *)
(***************************************************************************)
\* serde_json's string: quoted, with '"', '\' and the line feed escaped.
RECURSIVE JsonEscape(_)
JsonEscape(s) ==
  IF s = <<>> THEN <<>>
  ELSE (IF Head(s) = "\"" THEN <<"\\", "\"">>
        ELSE IF Head(s) = "\\" THEN <<"\\", "\\">>
        ELSE IF Head(s) = "\n" THEN <<"\\", "n">>
        ELSE <<Head(s)>>) \o JsonEscape(Tail(s))

JsonString(s) == <<"\"">> \o JsonEscape(s) \o <<"\"">>

\* The key serialised field by field, as derive(Serialize) would.
SerializeNetworkKeyDerived(key) ==
  <<"{">> \o JsonString(<<"a", "c", "c", "e", "s", "s", "_", "k", "e", "y">>)
  \o <<":">> \o JsonString(Base64Encode(key.access_key)) \o <<"}">>

\* impl Serialize for NetworkKey: the key is one string, its token.
SerializeNetworkKey(key) == JsonString(to_string(key))

\* derive(Serialize) for NetworkConfig: the fields in the order they are
\* declared, each with its name as a text and its value as JSON.
SerializeNetworkConfig(config) ==
  << <<"name", JsonString(config.name)>>,
     <<"key", SerializeNetworkKey(config.key)>>,
     <<"network_addr", JsonString(FormatIpAddr(config.network_addr))>>,
     <<"cidr", ToDecimal(config.cidr)>> >>

\* The characters of a field's name.
FieldNameText(f) ==
  IF f = "name" THEN <<"n", "a", "m", "e">>
  ELSE IF f = "key" THEN <<"k", "e", "y">>
  ELSE IF f = "network_addr"
  THEN <<"n", "e", "t", "w", "o", "r", "k", "_", "a", "d", "d", "r">>
  ELSE <<"c", "i", "d", "r">>

\* NetworkConfig::to_json: the compact JSON object of the fields.
to_json(config) ==
  LET fields == SerializeNetworkConfig(config)
      members == [i \in 1..Len(fields) |->
                    JsonString(FieldNameText(fields[i][1])) \o <<":">> \o fields[i][2]]
  IN  Ok(<<"{">> \o Join(members, <<",">>) \o <<"}">>)

(***************************************************************************)
(* Inputs.                                                                 *)
(***************************************************************************)
accs == <<"a", "c", "c", "s">>

scrt == <<"s", "c", "r", "t">>

bad == <<"b", "a", "d", "!">>

alsobad == <<"a", "l", "s", "o", "b", "a", "d", "!">>

\* The keys of the unit tests.
TestAccessKey == NetworkKey(<<105, 199, 44>>, None)

TestSecretKey == NetworkKey(<<105, 199, 44>>, Some(<<177, 202, 237>>))

KeyBytes == {0, 105, 255}

KeyInputs ==
  {NetworkKey(a, None) : a \in SeqsUpTo(KeyBytes, MaxKeyLen)}
  \cup {NetworkKey(a, Some(s)) : a \in SeqsUpTo(KeyBytes, MaxKeyLen),
                                 s \in SeqsUpTo(KeyBytes, MaxKeyLen)}
  \cup {TestAccessKey, TestSecretKey}

TokenChars == {"a", "c", "!", ":"}

TokenInputs ==
  SeqsUpTo(TokenChars, MaxTokenLen)
  \cup {accs, accs \o <<":">> \o scrt, bad, bad \o <<":">> \o alsobad,
        bad \o <<":">> \o scrt, accs \o <<":">> \o bad}

\* ed25519::keypair on a random seed: an access key of GenKeyLen bytes and a
\* secret key of twice as many, any bytes over SeedBytes.
SeedBytes == {0, 255}

GeneratedKeys ==
  {NetworkKey(a, Some(s)) : a \in SeqsOfLen(SeedBytes, GenKeyLen),
                            s \in SeqsOfLen(SeedBytes, 2 * GenKeyLen)}

TestAddrV4 == <<"1", "9", "2", ".", "1", "6", "8", ".", "1", ".", "1">>

TestAddrV6 == <<"f", "e", "8", "0", ":", ":", "1">>

\* Three octets only: no address.
ShortAddr == <<"1", "9", "2", ".", "1", "6", "8", ".", "1">>

AddrTexts == {<<>>, TestAddrV4, TestAddrV6, ShortAddr}

SuffixChars == {"/", "1", "3", "x"}

\* The prefix lengths of the unit tests, those at the bounds of each family
\* and of the u8, and texts that are no plain number.
LiteralSuffixes ==
  {<<>>,
   <<"/", "0">>, <<"/", "2", "4">>, <<"/", "3", "0">>, <<"/", "3", "1">>,
   <<"/", "6", "4">>, <<"/", "1", "2", "6">>, <<"/", "1", "2", "7">>,
   <<"/", "1", "3", "0">>, <<"/", "2", "5", "5">>, <<"/", "2", "5", "6">>,
   <<"/", "1", "0", "0", "0">>, <<"/", "0", "2", "4">>, <<"/", "+", "2", "4">>,
   <<"/", "-", "1">>, <<"/", "2", "4", "/", "x">>}

SubnetInputs ==
  {a \o s : a \in AddrTexts,
            s \in SeqsUpTo(SuffixChars, MaxSuffixLen) \cup LiteralSuffixes}

TestName == <<"T", "e", "s", "t", "N", "a", "m", "e">>

\* The lines stdin may hold for the name: nothing (end of input), a blank
\* line, and names with and without blanks around them.
NameLines ==
  {<<>>, <<"\n">>, <<" ", "\n">>, <<"n", "\n">>, <<" ", "n", " ", "\n">>,
   TestName \o <<"\n">>}

SubnetLines ==
  {a \o s \o <<"\n">> : a \in AddrTexts, s \in LiteralSuffixes}
  \cup {<<>>, <<" ", "\n">>, <<" ">> \o TestAddrV4 \o <<"/", "2", "4", " ", "\n">>}

\* The names and keys of the NetworkConfig literals that are serialised.
ConfigNames == {TestName, <<>>, <<"a", "\"", "b">>}

ConfigKeys == {TestAccessKey, TestSecretKey}

(***************************************************************************)
(* The calls.                                                              *)
(***************************************************************************)
Init ==
  /\ op = "start"
  /\ arg = None
  /\ res = None
  /\ draws = 0

\* A NetworkKey literal is serialised (test serialize_network_key).
ToString ==
  /\ op = "start"
  /\ \E k \in KeyInputs :
       /\ op' = "to_string"
       /\ arg' = k
       /\ res' = to_string(k)
       /\ draws' = 0

\* A token is parsed (tests deserialize_network_key*, Deserialize).
FromStr ==
  /\ op = "start"
  /\ \E t \in TokenInputs :
       /\ op' = "from_str"
       /\ arg' = t
       /\ res' = from_str(t)
       /\ draws' = 0

\* generate_secret_key: one seed is drawn and the key pair made of it.
GenerateSecretKey ==
  /\ op = "start"
  /\ \E k \in GeneratedKeys :
       /\ op' = "generate_secret_key"
       /\ arg' = None
       /\ res' = k
       /\ draws' = 1

\* The generated key is serialised (test generate_network_key_with_rng).
ToStringGenerated ==
  /\ op = "generate_secret_key"
  /\ op' = "to_string"
  /\ arg' = res
  /\ res' = to_string(res)
  /\ draws' = draws

\* The serialised key is parsed back; arg stays the key that was serialised.
ParseSerialized ==
  /\ op = "to_string"
  /\ op' = "parse_serialized"
  /\ arg' = arg
  /\ res' = from_str(res)
  /\ draws' = draws

\* A subnet text is parsed (tests serialize_ip_cidr*).
StringToIpCidr ==
  /\ op = "start"
  /\ \E input \in SubnetInputs :
       /\ op' = "string_to_ip_cidr"
       /\ arg' = input
       /\ res' = string_to_ip_cidr(input)
       /\ draws' = 0

\* command_new: the prompt is run on what stdin holds.
NewNetworkPrompt ==
  /\ op = "start"
  /\ \E name_line \in NameLines, subnet_line \in SubnetLines, k \in GeneratedKeys :
       LET out == new_network_prompt(name_line, subnet_line, k)
       IN  /\ op' = "new_network_prompt"
           /\ arg' = [name_line |-> name_line, subnet_line |-> subnet_line]
           /\ res' = out.result
           /\ draws' = out.draws

\* The parsed subnet is put in a NetworkConfig literal, which is serialised
\* (tests serialize_network_config_v4 and _v6).
ToJson ==
  /\ op = "string_to_ip_cidr"
  /\ res.ok
  /\ res.val # None
  /\ \E name \in ConfigNames, key \in ConfigKeys :
       /\ op' = "to_json"
       /\ arg' = NetworkConfig(name, key, res.val[1][1], res.val[1][2])
       /\ res' = to_json(arg')
       /\ draws' = draws

Next ==
  \/ ToString
  \/ FromStr
  \/ GenerateSecretKey
  \/ ToStringGenerated
  \/ ParseSerialized
  \/ StringToIpCidr
  \/ NewNetworkPrompt
  \/ ToJson

Spec == Init /\ [][Next]_vars

(***************************************************************************)
(* Properties.                                                             *)
(***************************************************************************)
CountOf(s, c) == Cardinality({i \in 1..Len(s) : s[i] = c})

\* The text of a prefix length written as a plain decimal number.
IsDecimal(t) == t # <<>> /\ AllDigits(t)

\* C1: a key that is serialised and parsed back is returned unchanged, byte
\* for byte, with its secret key present exactly when it was; the parse
\* succeeds.  This holds for the generated keys too.
RoundTrip == op = "parse_serialized" => res = Ok(arg)

RoundTripWitness ==
  /\ op = "parse_serialized"
  /\ draws = 1
  /\ arg.secret_key # None
  /\ res = Ok(arg)

\* C2: the token is the unpadded url-safe base64 of the access key, followed,
\* exactly when there is a secret key, by one ':' and the base64 of the secret
\* key; it holds no other ':'.
EncodeFormat ==
  op = "to_string" =>
    LET a == Base64Encode(arg.access_key)
    IN  /\ Len(a) = (4 * Len(arg.access_key) + 2) \div 3
        /\ \A i \in 1..Len(a) : SymValue(a[i]) >= 0
        /\ CountOf(res, ":") = (IF arg.secret_key # None THEN 1 ELSE 0)
        /\ SubSeq(res, 1, Len(a)) = a
        /\ arg.secret_key = None => res = a
        /\ arg.secret_key # None =>
             /\ res[Len(a) + 1] = ":"
             /\ SubSeq(res, Len(a) + 2, Len(res)) = Base64Encode(arg.secret_key[1])
             /\ Len(res) = Len(a) + 1 + (4 * Len(arg.secret_key[1]) + 2) \div 3
        /\ arg = TestAccessKey => res = accs
        /\ arg = TestSecretKey => res = accs \o <<":">> \o scrt

EncodeFormatWitness ==
  /\ op = "to_string"
  /\ arg = TestSecretKey
  /\ res = accs \o <<":">> \o scrt

\* C3: parsing a token fails exactly when none of its ':'-separated pieces
\* is valid base64; a valid piece followed by an invalid one gives the key
\* of the valid piece with no secret key.
DecodeFailsIffNoPiece ==
  op = "from_str" =>
    LET pieces == Split(arg, ":")
    IN  /\ (~res.ok) <=> (\A i \in 1..Len(pieces) : ~Base64Decode(pieces[i]).ok)
        /\ ~res.ok => res = Err("failed to deserialize access key")
        /\ (Len(pieces) = 2 /\ Base64Decode(pieces[1]).ok /\ ~Base64Decode(pieces[2]).ok)
             => res = Ok(NetworkKey(Base64Decode(pieces[1]).val, None))

DecodeFailsIffNoPieceWitness ==
  /\ op = "from_str"
  /\ arg = accs \o <<":">> \o bad
  /\ res = Ok(TestAccessKey)

\* C4: a parsed subnet has a prefix length of at most 30 for an IPv4 address
\* and at most 126 for an IPv6 address; "<addr>/<n>" with a valid address is
\* refused as out of range for n in 31..255 (IPv4) and 127..255 (IPv6), and
\* accepted for an IPv6 address and n in 31..126.
SubnetBounds ==
  op = "string_to_ip_cidr" =>
    LET parts == Split(arg, "/")
        ip == ParseIpAddr(parts[1])
        n == NumberValue(parts[2], 10)
    IN  /\ (res.ok /\ res.val # None) =>
             /\ is_ipv4(res.val[1][1]) => res.val[1][2] <= 30
             /\ is_ipv6(res.val[1][1]) => res.val[1][2] <= 126
        /\ (Len(parts) = 2 /\ ip.ok /\ IsDecimal(parts[2])) =>
             /\ (is_ipv4(ip.val) /\ n \in 31..255) => res = Err("Invalid CIDR subnet")
             /\ (is_ipv6(ip.val) /\ n \in 127..255) => res = Err("Invalid CIDR subnet")
             /\ (is_ipv6(ip.val) /\ n \in 31..126) => res = Ok(Some(<<ip.val, n>>))

SubnetBoundsWitness ==
  /\ op = "string_to_ip_cidr"
  /\ res.ok
  /\ res.val # None
  /\ is_ipv6(res.val[1][1])
  /\ res.val[1][2] = 126

\* C5: the prompt fails for an empty name whatever the subnet answer is;
\* otherwise it fails with the subnet parser's error when the subnet answer
\* does not parse; otherwise it returns a config with the given name, the
\* parsed subnet (192.168.251.0/24 when the answer is empty) and a key with
\* a secret key.  A seed is drawn exactly on the calls that succeed.
AssembleOrder ==
  op = "new_network_prompt" =>
    LET name == question_prompt(arg.name_line)
        subnet_text == question_prompt(arg.subnet_line)
        parsed == string_to_ip_cidr(subnet_text)
    IN  /\ name = <<>> => res = Err("A network name needs to be provided.")
        /\ (name # <<>> /\ ~parsed.ok) => res = parsed
        /\ (name # <<>> /\ parsed.ok) =>
             /\ res.ok
             /\ res.val.name = name
             /\ res.val.key.secret_key # None
             /\ subnet_text = <<>> =>
                  /\ res.val.network_addr = IpV4(<<192, 168, 251, 0>>)
                  /\ res.val.cidr = 24
             /\ subnet_text # <<>> =>
                  <<res.val.network_addr, res.val.cidr>> = parsed.val[1]
        /\ draws = (IF res.ok THEN 1 ELSE 0)

AssembleOrderWitness ==
  /\ op = "new_network_prompt"
  /\ question_prompt(arg.subnet_line) = <<>>
  /\ res.ok
  /\ res.val.name = TestName
  /\ res.val.cidr = 24
  /\ draws = 1

ExpectedJsonV4 ==
  <<"{", "\"", "n", "a", "m", "e", "\"", ":", "\"", "T", "e", "s", "t", "N",
    "a", "m", "e", "\"", ",", "\"", "k", "e", "y", "\"", ":", "\"", "a", "c",
    "c", "s", "\"", ",", "\"", "n", "e", "t", "w", "o", "r", "k", "_", "a",
    "d", "d", "r", "\"", ":", "\"", "1", "9", "2", ".", "1", "6", "8", ".",
    "1", ".", "1", "\"", ",", "\"", "c", "i", "d", "r", "\"", ":", "2", "4",
    "}">>

ExpectedJsonV6 ==
  <<"{", "\"", "n", "a", "m", "e", "\"", ":", "\"", "T", "e", "s", "t", "N",
    "a", "m", "e", "\"", ",", "\"", "k", "e", "y", "\"", ":", "\"", "a", "c",
    "c", "s", "\"", ",", "\"", "n", "e", "t", "w", "o", "r", "k", "_", "a",
    "d", "d", "r", "\"", ":", "\"", "f", "e", "8", "0", ":", ":", "1", "\"",
    ",", "\"", "c", "i", "d", "r", "\"", ":", "6", "4", "}">>

\* C6: the JSON of a config is an object of the four members name, key,
\* network_addr and cidr, in this order; key is the key's token as one
\* string, network_addr the address as text and cidr a number.  The configs
\* of the unit tests give the two expected texts.
JsonRecord ==
  op = "to_json" =>
    /\ [i \in 1..4 |-> SerializeNetworkConfig(arg)[i][1]]
         = <<"name", "key", "network_addr", "cidr">>
    /\ Len(SerializeNetworkConfig(arg)) = 4
    /\ res = Ok(<<"{", "\"", "n", "a", "m", "e", "\"", ":">> \o JsonString(arg.name)
                \o <<",", "\"", "k", "e", "y", "\"", ":">>
                \o JsonString(to_string(arg.key))
                \o <<",", "\"", "n", "e", "t", "w", "o", "r", "k", "_", "a", "d",
                     "d", "r", "\"", ":">>
                \o JsonString(FormatIpAddr(arg.network_addr))
                \o <<",", "\"", "c", "i", "d", "r", "\"", ":">>
                \o ToDecimal(arg.cidr) \o <<"}">>)
    /\ arg = NetworkConfig(TestName, TestAccessKey, IpV4(<<192, 168, 1, 1>>), 24)
         => res = Ok(ExpectedJsonV4)
    /\ arg = NetworkConfig(TestName, TestAccessKey,
                           IpV6(<<65152, 0, 0, 0, 0, 0, 0, 1>>), 64)
         => res = Ok(ExpectedJsonV6)

JsonRecordWitness ==
  /\ op = "to_json"
  /\ arg = NetworkConfig(TestName, TestAccessKey,
                         IpV6(<<65152, 0, 0, 0, 0, 0, 0, 1>>), 64)
  /\ res = Ok(ExpectedJsonV6)

\* C7: when a token of two pieces A:S parses, the access key is the decoding
\* of A and the secret key is present and is the decoding of S.
NoTruncationOrReorder ==
  op = "from_str" =>
    LET pieces == Split(arg, ":")
    IN  (Len(pieces) = 2 /\ res.ok) =>
          /\ Base64Decode(pieces[1]).ok
          /\ Base64Decode(pieces[2]).ok
          /\ res.val.access_key = Base64Decode(pieces[1]).val
          /\ res.val.secret_key = Some(Base64Decode(pieces[2]).val)

\* C8, as stated: parsing the empty token fails.
EmptyTokenFails == (op = "from_str" /\ arg = <<>>) => ~res.ok

\* C8, amended: parsing the empty token succeeds, with the empty access key
\* and no secret key (the empty text is valid base64 of no bytes).
EmptyTokenDecodes ==
  (op = "from_str" /\ arg = <<>>) => res = Ok(NetworkKey(<<>>, None))

EmptyTokenDecodesWitness ==
  /\ op = "from_str"
  /\ arg = <<>>
  /\ res.ok
  /\ res.val.access_key = <<>>

\* C9: a subnet text "<ip>/<n>/<rest>", with a valid address and a valid
\* prefix length n followed by a further '/', is refused: the prefix length
\* is all of the text after the first '/', which is no number.
SplitOnFirstSlashOnly ==
  op = "string_to_ip_cidr" =>
    LET parts == Split(arg, "/")
        ip == ParseIpAddr(parts[1])
        n == NumberValue(parts[2], 10)
    IN  (/\ Len(parts) >= 3
         /\ parts[3] # <<>>
         /\ ip.ok
         /\ IsDecimal(parts[2])
         /\ n <= (IF is_ipv4(ip.val) THEN 30 ELSE 126))
          => res = Err("Could not parse CIDR")

\* C10, as stated: "<addr>/<n>" with a valid address and a decimal n above
\* the bound of the address's family is refused as out of range, however
\* large n is; the prefix length is refused as unparsable only when it is no
\* decimal number.
LargePrefixOutOfRange ==
  op = "string_to_ip_cidr" =>
    LET parts == Split(arg, "/")
        ip == ParseIpAddr(parts[1])
        n == NumberValue(parts[2], 10)
    IN  (Len(parts) = 2 /\ ip.ok) =>
          /\ (IsDecimal(parts[2]) /\ n > (IF is_ipv4(ip.val) THEN 30 ELSE 126))
               => res = Err("Invalid CIDR subnet")
          /\ res = Err("Could not parse CIDR") => ~IsDecimal(parts[2])

\* C10, amended: a decimal n above the family's bound and at most 255 is
\* refused as out of range; a decimal n of 256 or more does not fit the u8
\* and is refused as unparsable; the prefix length is refused as unparsable
\* only when it is no decimal number of at most 255.
PrefixOutOfRangeUpTo255 ==
  op = "string_to_ip_cidr" =>
    LET parts == Split(arg, "/")
        ip == ParseIpAddr(parts[1])
        n == NumberValue(parts[2], 10)
    IN  (Len(parts) = 2 /\ ip.ok) =>
          /\ (IsDecimal(parts[2]) /\ n <= 255
              /\ n > (IF is_ipv4(ip.val) THEN 30 ELSE 126))
               => res = Err("Invalid CIDR subnet")
          /\ (IsDecimal(parts[2]) /\ n >= 256) => res = Err("Could not parse CIDR")
          /\ res = Err("Could not parse CIDR") => ~(IsDecimal(parts[2]) /\ n <= 255)

PrefixOutOfRangeUpTo255Witness ==
  /\ op = "string_to_ip_cidr"
  /\ arg = TestAddrV6 \o <<"/", "2", "5", "6">>
  /\ res = Err("Could not parse CIDR")

====
